---- MODULE Spec2Model ----
(***************************************************************************)
(* A model of the counter program (src/src/processor.rs, instruction.rs,  *)
(* state.rs): the instruction decoder, the account state codec and the    *)
(* two instruction handlers, run against a host that keeps the accounts   *)
(* and discards every effect of a call that returns an error.             *)
(*                                                                         *)
(* u64 values are kept at their full width.  TLC's integers are 32 bits   *)
(* wide, so a u64 is a tuple of four 16-bit limbs, least significant      *)
(* first; bytes are integers 0..255; byte regions are sequences of bytes. *)
(***************************************************************************)
EXTENDS Integers, Sequences, FiniteSets, TLC

VARIABLES
    accounts,   \* the host's account store: address -> owner, lamports, data
    last,       \* the last call: its inputs, result, sub-calls, the store before
    history,    \* per account: how its region came to be, committed Increments
    committed,  \* calls committed so far
    codec,      \* the wire codec run on its own: a buffer and its decoding
    callers     \* clients with an Increment to submit: request and progress

vars == <<accounts, last, history, committed, codec, callers>>

----------------------------------------------------------------------------
(* Results: Rust's Result<T, ProgramError>.                                *)

Ok(v) == [ok |-> TRUE, val |-> v]

Err(e) == [ok |-> FALSE, err |-> e]

----------------------------------------------------------------------------
(* u64 arithmetic and byte order.                                          *)

LimbBase == 256 * 256

Limbs == 1..4

u64_of(n) == [i \in Limbs |-> IF i = 1 THEN n ELSE 0]

U64_MAX == [i \in Limbs |-> LimbBase - 1]

\* u64::from_le_bytes on an 8-byte array: byte 1 is the least significant.
from_le_bytes(b) == [i \in Limbs |-> b[2 * i - 1] + 256 * b[2 * i]]

\* Variant of to_le_bytes that puts the most significant byte first.
to_be_bytes(n) ==
    [i \in 1..8 |-> IF i % 2 = 1 THEN n[(10 - i) \div 2] \div 256
                                 ELSE n[(10 - i) \div 2] % 256]

\* u64::to_le_bytes, which borsh uses to serialize a u64.
to_le_bytes(n) ==
    [i \in 1..8 |-> IF i % 2 = 1 THEN n[(i + 1) \div 2] % 256
                                 ELSE n[i \div 2] \div 256]

RECURSIVE add_limbs_no_carry(_, _, _, _)
\* Variant of add_limbs that drops the carry between limbs.
add_limbs_no_carry(a, b, i, carry) ==
    IF i > 4 THEN <<<< >>, 0>>
    ELSE LET s    == a[i] + b[i] + carry
             rest == add_limbs_no_carry(a, b, i + 1, 0)
         IN  <<(<<s % LimbBase>>) \o rest[1], rest[2]>>

RECURSIVE add_limbs(_, _, _, _)
\* Limb-wise addition from limb i on: <<the sum's limbs from i on, carry out>>.
add_limbs(a, b, i, carry) ==
    IF i > 4 THEN <<<< >>, carry>>
    ELSE LET s    == a[i] + b[i] + carry
             rest == add_limbs(a, b, i + 1, s \div LimbBase)
         IN  <<(<<s % LimbBase>>) \o rest[1], rest[2]>>

\* Variant of checked_add that wraps around instead of failing.
wrapping_add(a, b) == Ok(add_limbs(a, b, 1, 0)[1])

\* u64::checked_add: None (here an Err) when the sum does not fit 64 bits.
checked_add(a, b) ==
    LET r == add_limbs(a, b, 1, 0)
    IN  IF r[2] # 0 THEN Err("Overflow") ELSE Ok(r[1])

----------------------------------------------------------------------------
(* Wire codec: CounterInstruction::unpack.                                 *)

InitializeCounter(v) == [tag |-> "InitializeCounter", initial_value |-> v]

IncrementCounter == [tag |-> "IncrementCounter"]

\* Variant of unpack that reads the first 8 payload bytes of a longer buffer.
unpack_lenient(input) ==
    IF Len(input) = 0 THEN Err("InvalidInstructionData")
    ELSE LET variant == Head(input)
             rest    == Tail(input)
         IN  CASE variant = 0 ->
                    IF Len(rest) >= 8
                    THEN Ok(InitializeCounter(from_le_bytes(SubSeq(rest, 1, 8))))
                    ELSE Err("InvalidInstructionData")
               [] variant = 1 -> Ok(IncrementCounter)
               [] OTHER -> Err("InvalidInstructionData")

\* Variant of unpack that rejects trailing bytes after discriminant 1.
unpack_strict_increment(input) ==
    IF Len(input) = 0 THEN Err("InvalidInstructionData")
    ELSE LET variant == Head(input)
             rest    == Tail(input)
         IN  CASE variant = 0 ->
                    IF Len(rest) = 8
                    THEN Ok(InitializeCounter(from_le_bytes(rest)))
                    ELSE Err("InvalidInstructionData")
               [] variant = 1 ->
                    IF Len(rest) = 0 THEN Ok(IncrementCounter)
                    ELSE Err("InvalidInstructionData")
               [] OTHER -> Err("InvalidInstructionData")

\* Variant of unpack that takes every discriminant but 0 for Increment.
unpack_default_increment(input) ==
    IF Len(input) = 0 THEN Err("InvalidInstructionData")
    ELSE LET variant == Head(input)
             rest    == Tail(input)
         IN  CASE variant = 0 ->
                    IF Len(rest) = 8
                    THEN Ok(InitializeCounter(from_le_bytes(rest)))
                    ELSE Err("InvalidInstructionData")
               [] OTHER -> Ok(IncrementCounter)

unpack(input) ==
    IF Len(input) = 0 THEN Err("InvalidInstructionData")
    ELSE LET variant == Head(input)
             rest    == Tail(input)
         IN  CASE variant = 0 ->
                    IF Len(rest) = 8
                    THEN Ok(InitializeCounter(from_le_bytes(rest)))
                    ELSE Err("InvalidInstructionData")
               [] variant = 1 -> Ok(IncrementCounter)
               [] OTHER -> Err("InvalidInstructionData")

----------------------------------------------------------------------------
(* Account state codec: borsh on CounterAccount { count: u64 }.            *)

account_space == 8

\* Variant of try_from_slice that ignores bytes after the first 8.
try_from_slice_lenient(data) ==
    IF Len(data) < account_space
        THEN Err("BorshIoError(Unexpected length of input)")
    ELSE Ok([count |-> from_le_bytes(SubSeq(data, 1, account_space))])

\* Variant of try_from_slice that reads a short region as if zero-padded.
try_from_slice_padded(data) ==
    IF Len(data) > account_space
        THEN Err("BorshIoError(Not all bytes read)")
    ELSE Ok([count |-> from_le_bytes(
                 [i \in 1..account_space |->
                     IF i <= Len(data) THEN data[i] ELSE 0])])

\* CounterAccount::try_from_slice: reads 8 bytes and requires that no byte
\* of the slice is left over.
try_from_slice(data) ==
    IF Len(data) < account_space
        THEN Err("BorshIoError(Unexpected length of input)")
    ELSE IF Len(data) > account_space
        THEN Err("BorshIoError(Not all bytes read)")
    ELSE Ok([count |-> from_le_bytes(SubSeq(data, 1, account_space))])

\* counter_data.serialize(&mut &mut data[..]): writes the 8 bytes at the
\* front of the region.  On a shorter region it writes the bytes that fit
\* and then fails; val is the region as the write left it in either case.
serialize(counter_data, data) ==
    IF Len(data) < account_space
        THEN [ok  |-> FALSE,
              err |-> "BorshIoError(failed to write whole buffer)",
              val |-> SubSeq(to_le_bytes(counter_data.count), 1, Len(data))]
    ELSE Ok(to_le_bytes(counter_data.count)
              \o SubSeq(data, account_space + 1, Len(data)))

----------------------------------------------------------------------------
(* The host: identities, the account store, rent and the system program's *)
(* create_account, which process_initialize_counter invokes.               *)

ProgramId == "counter_program"

SystemProgramId == "system_program"

OtherProgramId == "other_program"

\* Addresses of the accounts the store holds.
AccountKeys == {"c1", "c2", "payer"}

\* Address of the system program's own account, passed as the third account.
SystemProgramKey == "sys"

Zeroes(n) == [i \in 1..n |-> 0]

\* Rent::minimum_balance of the host's default rent: (128 + data_len) bytes
\* at 3480 lamports per byte-year, two years.
minimum_balance(data_len) == (128 + data_len) * 3480 * 2

\* system_instruction::create_account(from, to, lamports, space, owner).
create_account(from_pubkey, to_pubkey, lamports, space, owner) ==
    [program_id |-> SystemProgramId, from |-> from_pubkey, to |-> to_pubkey,
     lamports |-> lamports, space |-> space, owner |-> owner]

\* invoke(instruction, account_infos) of a create_account instruction on the
\* store: the host's privilege check, then the system program's checks in
\* their order; Ok(store after) or the error that propagates to the caller.
invoke(ix, account_infos, store) ==
    LET signs(k) == \E i \in DOMAIN account_infos :
                        account_infos[i].key = k /\ account_infos[i].is_signer
        from == store[ix.from]
        to   == store[ix.to]
    IN  IF ~signs(ix.from) \/ ~signs(ix.to)
            THEN Err("MissingRequiredSignature")
        ELSE IF to.lamports > 0 THEN Err("AccountAlreadyInUse")
        ELSE IF Len(to.data) > 0 \/ to.owner # SystemProgramId
            THEN Err("AccountAlreadyInUse")
        ELSE IF from.owner # SystemProgramId \/ Len(from.data) > 0
            THEN Err("InvalidArgument")
        ELSE IF from.lamports < ix.lamports THEN Err("InsufficientFunds")
        ELSE Ok([store EXCEPT
                   ![ix.from].lamports = @ - ix.lamports,
                   ![ix.to] = [owner    |-> ix.owner,
                               lamports |-> ix.lamports,
                               data     |-> Zeroes(ix.space)]])

----------------------------------------------------------------------------
(* The instruction processor.  A handler's outcome: its result, the store *)
(* as the handler left it, and the sub-calls it issued.                    *)

Outcome(result, store, invoked) ==
    [result |-> result, accounts |-> store, invoked |-> invoked]

\* A sub-call as the handler saw it: the instruction and what invoke returned.
SubCall(ix, result) == [ix |-> ix, result |-> result]

\* Variant of process_initialize_counter that stores count 0 whatever the
\* initial value.
process_initialize_counter_zero(program_id, accts, initial_value, store) ==
    IF Len(accts) < 3 THEN Outcome("NotEnoughAccountKeys", store, << >>)
    ELSE
      LET counter_account   == accts[1]
          payer_account     == accts[2]
          system_program    == accts[3]
          required_lamports == minimum_balance(account_space)
          ix  == create_account(payer_account.key, counter_account.key,
                                required_lamports, account_space, program_id)
          sub == invoke(ix, <<payer_account, counter_account, system_program>>,
                        store)
      IN  IF ~sub.ok THEN Outcome(sub.err, store, <<SubCall(ix, sub.err)>>)
          ELSE
            LET counter_data == [count |-> u64_of(0)]
                w == serialize(counter_data, sub.val[counter_account.key].data)
            IN  IF ~w.ok
                THEN Outcome(w.err,
                             [sub.val EXCEPT ![counter_account.key].data = w.val],
                             <<SubCall(ix, "Ok")>>)
                ELSE Outcome("Ok",
                             [sub.val EXCEPT ![counter_account.key].data = w.val],
                             <<SubCall(ix, "Ok")>>)

\* Variant of process_initialize_counter that does not propagate the
\* sub-call's failure.
process_initialize_counter_unchecked(program_id, accts, initial_value, store) ==
    IF Len(accts) < 3 THEN Outcome("NotEnoughAccountKeys", store, << >>)
    ELSE
      LET counter_account   == accts[1]
          payer_account     == accts[2]
          system_program    == accts[3]
          required_lamports == minimum_balance(account_space)
          ix  == create_account(payer_account.key, counter_account.key,
                                required_lamports, account_space, program_id)
          sub == invoke(ix, <<payer_account, counter_account, system_program>>,
                        store)
          created == IF sub.ok THEN sub.val ELSE store
          counter_data == [count |-> initial_value]
          w == serialize(counter_data, created[counter_account.key].data)
          invoked == <<SubCall(ix, IF sub.ok THEN "Ok" ELSE sub.err)>>
      IN  IF ~w.ok
          THEN Outcome(w.err,
                       [created EXCEPT ![counter_account.key].data = w.val],
                       invoked)
          ELSE Outcome("Ok",
                       [created EXCEPT ![counter_account.key].data = w.val],
                       invoked)

\* Variant of process_initialize_counter that asks for two accounts only and
\* invokes without the system program's account.
process_initialize_counter_two(program_id, accts, initial_value, store) ==
    IF Len(accts) < 2 THEN Outcome("NotEnoughAccountKeys", store, << >>)
    ELSE
      LET counter_account   == accts[1]
          payer_account     == accts[2]
          required_lamports == minimum_balance(account_space)
          ix  == create_account(payer_account.key, counter_account.key,
                                required_lamports, account_space, program_id)
          sub == invoke(ix, <<payer_account, counter_account>>, store)
      IN  IF ~sub.ok THEN Outcome(sub.err, store, <<SubCall(ix, sub.err)>>)
          ELSE
            LET counter_data == [count |-> initial_value]
                w == serialize(counter_data, sub.val[counter_account.key].data)
            IN  IF ~w.ok
                THEN Outcome(w.err,
                             [sub.val EXCEPT ![counter_account.key].data = w.val],
                             <<SubCall(ix, "Ok")>>)
                ELSE Outcome("Ok",
                             [sub.val EXCEPT ![counter_account.key].data = w.val],
                             <<SubCall(ix, "Ok")>>)

\* Variant of process_initialize_counter that hands the sub-call account
\* infos flagged as signers whatever the caller's flags were.
process_initialize_counter_presigned(program_id, accts, initial_value, store) ==
    IF Len(accts) < 3 THEN Outcome("NotEnoughAccountKeys", store, << >>)
    ELSE
      LET counter_account   == [accts[1] EXCEPT !.is_signer = TRUE]
          payer_account     == [accts[2] EXCEPT !.is_signer = TRUE]
          system_program    == accts[3]
          required_lamports == minimum_balance(account_space)
          ix  == create_account(payer_account.key, counter_account.key,
                                required_lamports, account_space, program_id)
          sub == invoke(ix, <<payer_account, counter_account, system_program>>,
                        store)
      IN  IF ~sub.ok THEN Outcome(sub.err, store, <<SubCall(ix, sub.err)>>)
          ELSE
            LET counter_data == [count |-> initial_value]
                w == serialize(counter_data, sub.val[counter_account.key].data)
            IN  IF ~w.ok
                THEN Outcome(w.err,
                             [sub.val EXCEPT ![counter_account.key].data = w.val],
                             <<SubCall(ix, "Ok")>>)
                ELSE Outcome("Ok",
                             [sub.val EXCEPT ![counter_account.key].data = w.val],
                             <<SubCall(ix, "Ok")>>)

\* Variant of process_initialize_counter that builds create_account with the
\* funder and the new account exchanged.
process_initialize_counter_swapped(program_id, accts, initial_value, store) ==
    IF Len(accts) < 3 THEN Outcome("NotEnoughAccountKeys", store, << >>)
    ELSE
      LET counter_account   == accts[1]
          payer_account     == accts[2]
          system_program    == accts[3]
          required_lamports == minimum_balance(account_space)
          ix  == create_account(counter_account.key, payer_account.key,
                                required_lamports, account_space, program_id)
          sub == invoke(ix, <<payer_account, counter_account, system_program>>,
                        store)
      IN  IF ~sub.ok THEN Outcome(sub.err, store, <<SubCall(ix, sub.err)>>)
          ELSE
            LET counter_data == [count |-> initial_value]
                w == serialize(counter_data, sub.val[counter_account.key].data)
            IN  IF ~w.ok
                THEN Outcome(w.err,
                             [sub.val EXCEPT ![counter_account.key].data = w.val],
                             <<SubCall(ix, "Ok")>>)
                ELSE Outcome("Ok",
                             [sub.val EXCEPT ![counter_account.key].data = w.val],
                             <<SubCall(ix, "Ok")>>)

process_initialize_counter(program_id, accts, initial_value, store) ==
    IF Len(accts) < 3 THEN Outcome("NotEnoughAccountKeys", store, << >>)
    ELSE
      LET counter_account   == accts[1]
          payer_account     == accts[2]
          system_program    == accts[3]
          required_lamports == minimum_balance(account_space)
          ix  == create_account(payer_account.key, counter_account.key,
                                required_lamports, account_space, program_id)
          sub == invoke(ix, <<payer_account, counter_account, system_program>>,
                        store)
      IN  IF ~sub.ok THEN Outcome(sub.err, store, <<SubCall(ix, sub.err)>>)
          ELSE
            LET counter_data == [count |-> initial_value]
                w == serialize(counter_data, sub.val[counter_account.key].data)
            IN  IF ~w.ok
                THEN Outcome(w.err,
                             [sub.val EXCEPT ![counter_account.key].data = w.val],
                             <<SubCall(ix, "Ok")>>)
                ELSE Outcome("Ok",
                             [sub.val EXCEPT ![counter_account.key].data = w.val],
                             <<SubCall(ix, "Ok")>>)

\* Variant of process_increment_counter without the ownership check.
process_increment_counter_unchecked(program_id, accts, store) ==
    IF Len(accts) < 1 THEN Outcome("NotEnoughAccountKeys", store, << >>)
    ELSE
      LET counter_account == accts[1]
          info == store[counter_account.key]
          r == try_from_slice(info.data)
      IN  IF ~r.ok THEN Outcome(r.err, store, << >>)
          ELSE
            LET s == checked_add(r.val.count, u64_of(1))
            IN  IF ~s.ok THEN Outcome("InvalidAccountData", store, << >>)
                ELSE
                  LET w == serialize([count |-> s.val], info.data)
                  IN  IF ~w.ok
                          THEN Outcome(w.err,
                                 [store EXCEPT ![counter_account.key].data = w.val],
                                 << >>)
                      ELSE Outcome("Ok",
                             [store EXCEPT
                                ![counter_account.key].data = w.val],
                             << >>)

\* Variant of process_increment_counter that also requires the target to sign.
process_increment_counter_signed(program_id, accts, store) ==
    IF Len(accts) < 1 THEN Outcome("NotEnoughAccountKeys", store, << >>)
    ELSE
      LET counter_account == accts[1]
          info == store[counter_account.key]
      IN  IF info.owner # program_id
              THEN Outcome("IncorrectProgramId", store, << >>)
          ELSE IF ~counter_account.is_signer
              THEN Outcome("MissingRequiredSignature", store, << >>)
          ELSE
            LET r == try_from_slice(info.data)
            IN  IF ~r.ok THEN Outcome(r.err, store, << >>)
                ELSE
                  LET s == checked_add(r.val.count, u64_of(1))
                  IN  IF ~s.ok THEN Outcome("InvalidAccountData", store, << >>)
                      ELSE
                        LET w == serialize([count |-> s.val], info.data)
                        IN  IF ~w.ok
                                THEN Outcome(w.err,
                                       [store EXCEPT ![counter_account.key].data = w.val],
                                       << >>)
                            ELSE Outcome("Ok",
                                   [store EXCEPT
                                      ![counter_account.key].data = w.val],
                                   << >>)

\* Variant of process_increment_counter that writes the new count into the
\* last account of the list instead of the first.
process_increment_counter_last(program_id, accts, store) ==
    IF Len(accts) < 1 THEN Outcome("NotEnoughAccountKeys", store, << >>)
    ELSE
      LET counter_account == accts[1]
          info == store[counter_account.key]
          last_key == accts[Len(accts)].key
          written == IF last_key \in DOMAIN store THEN last_key
                     ELSE counter_account.key
      IN  IF info.owner # program_id
              THEN Outcome("IncorrectProgramId", store, << >>)
          ELSE
            LET r == try_from_slice(info.data)
            IN  IF ~r.ok THEN Outcome(r.err, store, << >>)
                ELSE
                  LET s == checked_add(r.val.count, u64_of(1))
                  IN  IF ~s.ok THEN Outcome("InvalidAccountData", store, << >>)
                      ELSE
                        LET w == serialize([count |-> s.val], store[written].data)
                        IN  IF ~w.ok
                                THEN Outcome(w.err,
                                       [store EXCEPT ![written].data = w.val],
                                       << >>)
                            ELSE Outcome("Ok",
                                   [store EXCEPT ![written].data = w.val],
                                   << >>)

\* Variant of process_increment_counter that decodes the region before it
\* checks the owner.
process_increment_counter_decode_first(program_id, accts, store) ==
    IF Len(accts) < 1 THEN Outcome("NotEnoughAccountKeys", store, << >>)
    ELSE
      LET counter_account == accts[1]
          info == store[counter_account.key]
          r == try_from_slice(info.data)
      IN  IF ~r.ok THEN Outcome(r.err, store, << >>)
          ELSE IF info.owner # program_id
              THEN Outcome("IncorrectProgramId", store, << >>)
          ELSE
            LET s == checked_add(r.val.count, u64_of(1))
            IN  IF ~s.ok THEN Outcome("InvalidAccountData", store, << >>)
                ELSE
                  LET w == serialize([count |-> s.val], info.data)
                  IN  IF ~w.ok
                          THEN Outcome(w.err,
                                 [store EXCEPT ![counter_account.key].data = w.val],
                                 << >>)
                      ELSE Outcome("Ok",
                             [store EXCEPT
                                ![counter_account.key].data = w.val],
                             << >>)

\* Variant of process_increment_counter that returns Ok without writing the
\* new count back.
process_increment_counter_no_store(program_id, accts, store) ==
    IF Len(accts) < 1 THEN Outcome("NotEnoughAccountKeys", store, << >>)
    ELSE
      LET counter_account == accts[1]
          info == store[counter_account.key]
      IN  IF info.owner # program_id
              THEN Outcome("IncorrectProgramId", store, << >>)
          ELSE
            LET r == try_from_slice(info.data)
            IN  IF ~r.ok THEN Outcome(r.err, store, << >>)
                ELSE
                  LET s == checked_add(r.val.count, u64_of(1))
                  IN  IF ~s.ok THEN Outcome("InvalidAccountData", store, << >>)
                      ELSE Outcome("Ok", store, << >>)

process_increment_counter(program_id, accts, store) ==
    IF Len(accts) < 1 THEN Outcome("NotEnoughAccountKeys", store, << >>)
    ELSE
      LET counter_account == accts[1]
          info == store[counter_account.key]
      IN  IF info.owner # program_id
              THEN Outcome("IncorrectProgramId", store, << >>)
          ELSE
            LET r == try_from_slice(info.data)
            IN  IF ~r.ok THEN Outcome(r.err, store, << >>)
                ELSE
                  LET s == checked_add(r.val.count, u64_of(1))
                  IN  IF ~s.ok THEN Outcome("InvalidAccountData", store, << >>)
                      ELSE
                        LET w == serialize([count |-> s.val], info.data)
                        IN  IF ~w.ok
                                THEN Outcome(w.err,
                                       [store EXCEPT ![counter_account.key].data = w.val],
                                       << >>)
                            ELSE Outcome("Ok",
                                   [store EXCEPT
                                      ![counter_account.key].data = w.val],
                                   << >>)

process_instruction(program_id, accts, instruction_data, store) ==
    LET instruction == unpack(instruction_data)
    IN  IF ~instruction.ok THEN Outcome(instruction.err, store, << >>)
        ELSE IF instruction.val.tag = "InitializeCounter"
            THEN process_initialize_counter(program_id, accts,
                                            instruction.val.initial_value, store)
        ELSE process_increment_counter(program_id, accts, store)

----------------------------------------------------------------------------
(* Bounds and the inputs of the model.                                     *)

\* Calls that commit in one run (a failed call leaves the store as it was).
MaxCommitted == 3

\* Accounts the payer's initial balance can fund.
MaxFunded == 2

\* Initial values a client asks for: 1 (the repository's test), 65535 (whose
\* successor carries across two bytes) and the largest u64.
InitialValues ==
    {u64_of(1), u64_of(LimbBase - 1), U64_MAX}

\* Instruction buffers a client submits: empty, an unknown discriminant,
\* discriminant 0 with too few and too many bytes, Increment with and
\* without trailing bytes, and Initialize of each initial value.
InstructionData ==
    {<< >>, <<2>>, <<0, 1>>, <<0>> \o Zeroes(9), <<1>>, <<1, 7>>}
      \cup {<<0>> \o to_le_bytes(v) : v \in InitialValues}

\* Account lists a client submits: up to two distinct stored accounts, then
\* optionally the system program's account; each stored account signs or not.
DistinctPairs == {p \in AccountKeys \X AccountKeys : p[1] # p[2]}

KeyLists ==
    {<< >>}
      \cup {<<a>> : a \in AccountKeys}
      \cup DistinctPairs
      \cup {p \o <<SystemProgramKey>> : p \in DistinctPairs}

AccountInfos(keys, signers) ==
    [i \in 1..Len(keys) |-> [key |-> keys[i], is_signer |-> keys[i] \in signers]]

AccountLists ==
    {AccountInfos(keys, signers) : keys \in KeyLists, signers \in SUBSET AccountKeys}

\* Accounts the store may hold before the first call: not yet created, a
\* region the system program allocated for this program (zeroed, of any
\* length), or an account of another program.
Fresh == [owner |-> SystemProgramId, lamports |-> 0, data |-> << >>]

Allocated(owner, data) ==
    [owner |-> owner, lamports |-> minimum_balance(Len(data)), data |-> data]

InitialAccounts ==
    {Fresh}
      \cup {Allocated(ProgramId, Zeroes(n)) : n \in {0, 7, 8, 9}}
      \cup {Allocated(OtherProgramId, to_le_bytes(u64_of(5))),
            Allocated(OtherProgramId, to_le_bytes(U64_MAX)),
            Allocated(OtherProgramId, <<5, 0, 0>>)}

NoCall ==
    [data |-> << >>, accts |-> << >>, result |-> "None", invoked |-> << >>]

----------------------------------------------------------------------------
(* The state machine: the host runs one call at a time to completion and  *)
(* keeps its effects only when it returns Ok.                              *)

Wallet ==
    [owner |-> SystemProgramId, data |-> << >>,
     lamports |-> MaxFunded * minimum_balance(account_space)]

InitialStores ==
    {store \in [AccountKeys -> InitialAccounts \cup {Wallet}] :
        /\ store["payer"] = Wallet
        /\ store["c1"] # Wallet
        /\ store["c2"] # Wallet}

HostHistory(store) ==
    [k \in AccountKeys |-> [origin |-> "host", base |-> store[k].data, incs |-> 0]]

NoCodec == [op |-> "none", input |-> << >>, output |-> Err("None")]

NoCallers == << >>

Init ==
    /\ accounts \in InitialStores
    /\ last = [call |-> NoCall, pre |-> accounts]
    /\ history = HostHistory(accounts)
    /\ committed = 0
    /\ codec = NoCodec
    /\ callers = NoCallers

\* The history after a committed call on the account list accts.
Recorded(accts, instruction_data, store) ==
    LET target == accts[1].key
    IN  IF unpack(instruction_data).val.tag = "InitializeCounter"
        THEN [history EXCEPT ![target] = [origin |-> "Initialize",
                                          base   |-> store[target].data,
                                          incs   |-> 0]]
        ELSE [history EXCEPT ![target].incs = @ + 1]

\* One call of the entrypoint.  A rejected call leaves the store as it was,
\* so the calls that can follow it are those that could be made in its
\* place: a run is explored up to its first rejected call.
Call(accts, instruction_data) ==
    /\ committed < MaxCommitted
    /\ last.call.result \in {"None", "Ok"}
    /\ LET out == process_instruction(ProgramId, accts, instruction_data, accounts)
       IN  /\ accounts' = IF out.result = "Ok" THEN out.accounts ELSE accounts
           /\ last' = [call |-> [data |-> instruction_data, accts |-> accts,
                                 result |-> out.result, invoked |-> out.invoked],
                       pre |-> accounts]
           /\ history' = IF out.result = "Ok"
                         THEN Recorded(accts, instruction_data, out.accounts)
                         ELSE history
           /\ committed' = IF out.result = "Ok" THEN committed + 1 ELSE committed
    /\ UNCHANGED <<codec, callers>>

Next == \E accts \in AccountLists, instruction_data \in InstructionData :
            Call(accts, instruction_data)

Spec == Init /\ [][Next]_vars

----------------------------------------------------------------------------
(* The wire codec on its own: unpack applied to each buffer of a bounded  *)
(* set.                                                                    *)

\* Longest payload after the discriminant.
MaxPayload == 9

PayloadBytes == {0, 1, 255}

Discriminants == {0, 1, 2, 255}

RECURSIVE Payloads(_)
Payloads(n) ==
    IF n = 0 THEN {<< >>}
    ELSE LET shorter == Payloads(n - 1)
         IN  shorter \cup {<<b>> \o p : b \in PayloadBytes,
                                        p \in {q \in shorter : Len(q) = n - 1}}

Buffers ==
    {<< >>} \cup {<<d>> \o p : d \in Discriminants, p \in Payloads(MaxPayload)}

\* Counts a CounterAccount may hold: every limb 0, 1, 255, 256 or 65535.
Counts == [Limbs -> {0, 1, 255, 256, LimbBase - 1}]

InitCodec ==
    /\ accounts = [k \in AccountKeys |-> Fresh]
    /\ last = [call |-> NoCall, pre |-> accounts]
    /\ history = HostHistory(accounts)
    /\ committed = 0
    /\ codec \in {[op |-> "none", input |-> b, output |-> Err("None")] : b \in Buffers}
               \cup {[op |-> "state", input |-> n, output |-> Err("None")] :
                        n \in Counts}
    /\ callers = NoCallers

Unpack ==
    /\ codec.op = "none"
    /\ codec' = [codec EXCEPT !.op = "unpack", !.output = unpack(codec.input)]
    /\ UNCHANGED <<accounts, last, history, committed, callers>>

\* The account state codec: a region decoded as the Increment handler does
\* and the decoded state written back over it.
ReadWrite ==
    /\ codec.op = "none"
    /\ LET r == try_from_slice(codec.input)
       IN  codec' = [codec EXCEPT
                       !.op = "read_write",
                       !.output = IF r.ok THEN serialize(r.val, codec.input)
                                          ELSE r]
    /\ UNCHANGED <<accounts, last, history, committed, callers>>

\* A CounterAccount written into a fresh 8-byte region and read back.
WriteRead ==
    /\ codec.op = "state"
    /\ LET w == serialize([count |-> codec.input], Zeroes(account_space))
       IN  codec' = [codec EXCEPT
                       !.op = "write_read",
                       !.output = IF w.ok THEN try_from_slice(w.val) ELSE w]
    /\ UNCHANGED <<accounts, last, history, committed, callers>>

NextCodec == Unpack \/ ReadWrite \/ WriteRead

SpecCodec == InitCodec /\ [][NextCodec]_vars

----------------------------------------------------------------------------
(* Several clients, each with one Increment against the counter c1.  The   *)
(* host runs the calls that touch one account one after the other, in any  *)
(* order, each to completion.                                              *)

\* Number of clients.
MaxCallers == 3

Callers == 1..MaxCallers

\* Counts the counter holds before the first client's call: 0, one whose
\* successors carry across a byte and across two bytes, and the last four
\* values of u64.
StartCounts ==
    {u64_of(0), u64_of(255), u64_of(LimbBase - 2),
     [U64_MAX EXCEPT ![1] = LimbBase - 4], [U64_MAX EXCEPT ![1] = LimbBase - 3],
     [U64_MAX EXCEPT ![1] = LimbBase - 2], U64_MAX}

\* The forms of an Increment on c1: the counter alone, signing or not, or
\* followed by a second account; with or without a trailing byte.
IncrementRequests ==
    {[accts |-> a, data |-> d] :
        a \in {AccountInfos(<<"c1">>, {"c1"}),
               AccountInfos(<<"c1">>, {}),
               AccountInfos(<<"c1", "c2">>, {})},
        d \in {<<1>>, <<1, 7>>}}

InitConcurrent ==
    /\ \E v \in StartCounts :
          accounts = [k \in AccountKeys |->
                        IF k = "c1" THEN Allocated(ProgramId, to_le_bytes(v))
                        ELSE IF k = "c2" THEN Allocated(ProgramId, Zeroes(account_space))
                        ELSE Wallet]
    /\ last = [call |-> NoCall, pre |-> accounts]
    /\ history = HostHistory(accounts)
    /\ committed = 0
    /\ codec = NoCodec
    /\ callers \in [Callers -> {[request |-> r, result |-> "None"] :
                                   r \in IncrementRequests}]

\* The host runs the call of client c: the whole of process_instruction, its
\* read of the region and its write, in one step.
Submit(c) ==
    /\ callers[c].result = "None"
    /\ LET accts == callers[c].request.accts
           instruction_data == callers[c].request.data
           out == process_instruction(ProgramId, accts, instruction_data, accounts)
       IN  /\ accounts' = IF out.result = "Ok" THEN out.accounts ELSE accounts
           /\ last' = [call |-> [data |-> instruction_data, accts |-> accts,
                                 result |-> out.result, invoked |-> out.invoked],
                       pre |-> accounts]
           /\ history' = IF out.result = "Ok"
                         THEN Recorded(accts, instruction_data, out.accounts)
                         ELSE history
           /\ committed' = IF out.result = "Ok" THEN committed + 1 ELSE committed
           /\ callers' = [callers EXCEPT ![c].result = out.result]
    /\ UNCHANGED codec

NextConcurrent == \E c \in Callers : Submit(c)

SpecConcurrent == InitConcurrent /\ [][NextConcurrent]_vars

----------------------------------------------------------------------------
(* Vocabulary of the claims.  The specification's error names stand for   *)
(* the ProgramError values the code returns.                               *)

NotOwner == "IncorrectProgramId"

Overflow == "InvalidAccountData"

Truncated == "BorshIoError(Unexpected length of input)"

NotAllBytesRead == "BorshIoError(Not all bytes read)"

DecodeError == "InvalidInstructionData"

CreationFailed ==
    {"MissingRequiredSignature", "AccountAlreadyInUse", "InvalidArgument",
     "InsufficientFunds"}

\* The last call, as the claims speak of it.
Called == last.call.result # "None"

Committed == last.call.result = "Ok"

Data == last.call.data

IsIncrement == Called /\ Len(Data) >= 1 /\ Data[1] = 1

IsInitialize == Called /\ Len(Data) = 9 /\ Data[1] = 0

HasTarget == Len(last.call.accts) >= 1

Target == last.call.accts[1].key

Before == last.pre[Target]

After == accounts[Target]

\* The largest u64 as stored: eight bytes of 255.
MaxBytes == [i \in 1..8 |-> 255]

\* The successor of a little-endian byte string: add one to the first byte
\* and ripple the carry.
RECURSIVE SuccBytes(_)
SuccBytes(b) ==
    IF b = << >> THEN << >>
    ELSE IF Head(b) < 255 THEN <<Head(b) + 1>> \o Tail(b)
    ELSE <<0>> \o SuccBytes(Tail(b))

RECURSIVE SuccTimes(_, _)
SuccTimes(b, n) == IF n = 0 THEN b ELSE SuccTimes(SuccBytes(b), n - 1)

\* An Increment aimed at a region of this program.
IncrementOnOwned == IsIncrement /\ HasTarget /\ Before.owner = ProgramId

----------------------------------------------------------------------------
(* C1: an Increment whose target is not owned by the executing program    *)
(* fails with NotOwner (IncorrectProgramId) and leaves the target's bytes, *)
(* and the whole store, as they were, whatever calls came before.          *)
C1_NotOwnerRejected ==
    (IsIncrement /\ HasTarget /\ Before.owner # ProgramId)
        => /\ last.call.result = NotOwner
           /\ After.data = Before.data
           /\ accounts = last.pre

\* An Increment on another program's 8-byte region, after a committed call.
C1_Witness ==
    /\ IsIncrement /\ HasTarget
    /\ Before.owner = OtherProgramId
    /\ Len(Before.data) = 8
    /\ committed >= 1
    /\ last.call.result = NotOwner

(* C2: an Increment on a program-owned counter holding the largest u64     *)
(* fails with Overflow (InvalidAccountData) and leaves the stored bytes    *)
(* unchanged: no wrap to 0, no partial write.                              *)
C2_OverflowRejected ==
    (IncrementOnOwned /\ Before.data = MaxBytes)
        => /\ last.call.result = Overflow
           /\ After.data = MaxBytes
           /\ accounts = last.pre

C2_Witness ==
    /\ IncrementOnOwned
    /\ Before.data = MaxBytes
    /\ last.call.result = Overflow

(* C3: an Increment on a program-owned 8-byte counter holding v < max      *)
(* commits and leaves v + 1; n committed Increments on a region that the   *)
(* host allocated as 8 zero bytes, never initialized, leave the count n.   *)
C3_IncrementAddsOne ==
    /\ (IncrementOnOwned /\ Len(Before.data) = 8 /\ Before.data # MaxBytes)
          => /\ Committed
             /\ After.data = SuccBytes(Before.data)
             /\ After.owner = ProgramId
    /\ \A k \in AccountKeys :
          (history[k].origin = "host" /\ history[k].base = Zeroes(8)
             /\ accounts[k].owner = ProgramId)
          => accounts[k].data = SuccTimes(Zeroes(8), history[k].incs)

\* Two Increments committed on a zeroed region that no Initialize wrote.
C3_Witness ==
    /\ IncrementOnOwned /\ Committed
    /\ history[Target].origin = "host"
    /\ history[Target].base = Zeroes(8)
    /\ history[Target].incs = 2
    /\ After.data = <<2, 0, 0, 0, 0, 0, 0, 0>>

\* Initialize{v} as submitted for a target that can be created: three
\* accounts, target and funder signing, the target not yet in use, the
\* funder a system account holding the rent.
CreatableInitialize ==
    /\ IsInitialize
    /\ Len(last.call.accts) >= 3
    /\ last.call.accts[1].is_signer /\ last.call.accts[2].is_signer
    /\ Before = Fresh
    /\ LET funder == last.pre[last.call.accts[2].key]
       IN  /\ funder.owner = SystemProgramId
           /\ funder.data = << >>
           /\ funder.lamports >= minimum_balance(8)

(* C4: Initialize{v} on a creatable target commits, leaves the target      *)
(* owned by the program with bytes that are v's little-endian encoding     *)
(* (the eight bytes the instruction carried); an Increment issued next on  *)
(* the same target commits and leaves v + 1 (v < max).                     *)
C4_InitializeThenIncrement ==
    /\ CreatableInitialize
          => /\ Committed
             /\ After.owner = ProgramId
             /\ After.data = SubSeq(Data, 2, 9)
    /\ \A k \in AccountKeys :
          (history[k].origin = "Initialize" /\ history[k].incs = 0)
             => accounts[k].owner = ProgramId
    /\ (IsIncrement /\ HasTarget /\ history[Target].origin = "Initialize"
          /\ Before.data = history[Target].base /\ Before.data # MaxBytes)
          => /\ Committed
             /\ After.data = SuccBytes(history[Target].base)

\* Initialize{65535} committed, then an Increment committed on that target.
C4_Witness ==
    /\ IsIncrement /\ HasTarget /\ Committed
    /\ history[Target].origin = "Initialize"
    /\ history[Target].base = <<255, 255, 0, 0, 0, 0, 0, 0>>
    /\ history[Target].incs = 1
    /\ After.data = <<0, 0, 1, 0, 0, 0, 0, 0>>

----------------------------------------------------------------------------
(* The little-endian value of a byte string, as limbs: the first byte plus *)
(* 256 times the value of the rest.                                        *)

Times256(n) ==
    [i \in Limbs |-> (n[i] % 256) * 256 + (IF i = 1 THEN 0 ELSE n[i - 1] \div 256)]

RECURSIVE LittleEndian(_)
LittleEndian(b) ==
    IF b = << >> THEN [i \in Limbs |-> 0]
    ELSE [Times256(LittleEndian(Tail(b))) EXCEPT ![1] = @ + Head(b)]

Unpacked == codec.op = "unpack"

(* C5: for a buffer whose first byte is 0, decode yields Initialize with   *)
(* the little-endian u64 of bytes 1..9 when the buffer is 9 bytes long,    *)
(* and fails (Malformed: InvalidInstructionData) for every other length.   *)
C5_DecodeInitialize ==
    (Unpacked /\ Len(codec.input) >= 1 /\ codec.input[1] = 0)
        => IF Len(codec.input) = 9
           THEN codec.output =
                  Ok([tag |-> "InitializeCounter",
                      initial_value |-> LittleEndian(Tail(codec.input))])
           ELSE codec.output = Err(DecodeError)

\* 0x ff 00 00 00 00 00 ff 01 little-endian after discriminant 0.
C5_Witness ==
    /\ Unpacked
    /\ codec.input = <<0, 1, 255, 0, 0, 0, 0, 0, 255>>
    /\ codec.output.ok
    /\ codec.output.val.initial_value = <<65281, 0, 0, 65280>>

(* C6: for a buffer whose first byte is 1, decode yields Increment,        *)
(* whatever bytes follow.                                                  *)
C6_DecodeIncrement ==
    (Unpacked /\ Len(codec.input) >= 1 /\ codec.input[1] = 1)
        => codec.output = Ok([tag |-> "IncrementCounter"])

C6_Witness ==
    /\ Unpacked
    /\ codec.input = <<1, 255, 0, 1>>
    /\ codec.output.ok
    /\ codec.output.val.tag = "IncrementCounter"

(* C7: a call whose buffer is empty or starts with a byte other than 0 or  *)
(* 1 is rejected with a decode error and changes no account, whatever      *)
(* accounts it was given.                                                  *)
C7_UndecodableRejected ==
    (Called /\ (Data = << >> \/ Data[1] \notin {0, 1}))
        => /\ last.call.result = DecodeError
           /\ accounts = last.pre
           /\ last.call.invoked = << >>

\* An unknown discriminant sent with a full account list whose target is a
\* counter of this program.
C7_Witness ==
    /\ Called /\ Data = <<2>>
    /\ Len(last.call.accts) = 3
    /\ Before.owner = ProgramId /\ Len(Before.data) = 8
    /\ last.call.result = DecodeError

(* C8 as stated: an Increment on a program-owned region of length L >= 8,  *)
(* L > 8 included, commits, adds one to the count in the first 8 bytes and *)
(* leaves bytes 8..L untouched.                                            *)
C8_Original ==
    (IncrementOnOwned /\ Len(Before.data) >= 8
       /\ SubSeq(Before.data, 1, 8) # MaxBytes)
        => /\ Committed
           /\ SubSeq(After.data, 1, 8) = SuccBytes(SubSeq(Before.data, 1, 8))
           /\ SubSeq(After.data, 9, Len(After.data))
                = SubSeq(Before.data, 9, Len(Before.data))

(* C8 amended: an Increment on a program-owned region of exactly 8 bytes   *)
(* (count below the maximum) commits and leaves the 8 bytes encoding the   *)
(* old count plus one; on a region longer than 8 bytes it fails with the   *)
(* decoder's "Not all bytes read" error and leaves the region unchanged.   *)
C8_TrailingBytesRejected ==
    /\ (IncrementOnOwned /\ Len(Before.data) > 8)
          => /\ last.call.result = NotAllBytesRead
             /\ After.data = Before.data
             /\ accounts = last.pre
    /\ (IncrementOnOwned /\ Len(Before.data) = 8 /\ Before.data # MaxBytes)
          => /\ Committed
             /\ Len(After.data) = 8
             /\ After.data = SuccBytes(Before.data)

C8_Witness ==
    /\ IncrementOnOwned
    /\ Len(Before.data) = 9
    /\ last.call.result = NotAllBytesRead

(* C9: an Increment on a program-owned region shorter than 8 bytes, the    *)
(* empty region included, fails with Truncated (borsh's "Unexpected length *)
(* of input") and leaves the region unchanged.                             *)
C9_ShortRegionRejected ==
    (IncrementOnOwned /\ Len(Before.data) < 8)
        => /\ last.call.result = Truncated
           /\ After.data = Before.data
           /\ accounts = last.pre

C9_Witness ==
    /\ IncrementOnOwned
    /\ Len(Before.data) = 7
    /\ last.call.result = Truncated

(* C10: when the account-creation sub-call of Initialize fails, the call   *)
(* fails with the sub-call's error (CreationFailed) and writes nothing; an *)
(* Initialize aimed at a region this program already owns, or paid by a    *)
(* funder short of the rent, never commits and leaves the store as it was. *)
C10_CreationFailurePropagates ==
    /\ \A i \in DOMAIN last.call.invoked :
          last.call.invoked[i].result # "Ok"
             => /\ last.call.result = last.call.invoked[i].result
                /\ last.call.result \in CreationFailed
                /\ accounts = last.pre
    /\ (IsInitialize /\ Len(last.call.accts) >= 3
          /\ (Before.owner = ProgramId
                \/ last.pre[last.call.accts[2].key].lamports < minimum_balance(8)))
          => /\ last.call.result \in CreationFailed
             /\ After.data = Before.data
             /\ accounts = last.pre

\* Initialize{v} signed and funded, aimed at a counter that an earlier
\* Initialize created with another value.
C10_Witness ==
    /\ IsInitialize /\ Len(last.call.accts) = 3
    /\ last.call.accts[1].is_signer /\ last.call.accts[2].is_signer
    /\ history[Target].origin = "Initialize"
    /\ Before.data # SubSeq(Data, 2, 9)
    /\ last.call.result = "AccountAlreadyInUse"
    /\ After.data = Before.data

----------------------------------------------------------------------------
MissingAccount == "NotEnoughAccountKeys"

(* C11: a call with fewer accounts than its operation reads (fewer than 3  *)
(* for Initialize, none for Increment) fails with MissingAccount           *)
(* (NotEnoughAccountKeys); no sub-call is made and no account changes.     *)
C11_MissingAccountRejected ==
    ((IsInitialize /\ Len(last.call.accts) < 3)
       \/ (IsIncrement /\ Len(last.call.accts) = 0))
        => /\ last.call.result = MissingAccount
           /\ last.call.invoked = << >>
           /\ accounts = last.pre

\* Initialize with a creatable target and a signing, funded funder, but
\* without the third account.
C11_Witness ==
    /\ IsInitialize
    /\ Len(last.call.accts) = 2
    /\ last.call.accts[1].is_signer /\ last.call.accts[2].is_signer
    /\ Before = Fresh
    /\ last.pre[last.call.accts[2].key].lamports >= minimum_balance(8)
    /\ last.call.result = MissingAccount

(* C12: an Initialize whose target or funder is not flagged as a signer    *)
(* never commits: no account is created, no region is written.             *)
C12_UnsignedInitializeRejected ==
    (IsInitialize /\ Len(last.call.accts) >= 3
       /\ (~last.call.accts[1].is_signer \/ ~last.call.accts[2].is_signer))
        => /\ ~Committed
           /\ accounts = last.pre
           /\ After = Before

\* Initialize on a creatable target paid by a signing, funded funder, the
\* target itself not signing.
C12_Witness ==
    /\ IsInitialize /\ Len(last.call.accts) = 3
    /\ ~last.call.accts[1].is_signer /\ last.call.accts[2].is_signer
    /\ Before = Fresh
    /\ last.pre[last.call.accts[2].key] = Wallet
    /\ last.call.result = "MissingRequiredSignature"
    /\ After = Fresh

\* The account list with every signer flag set to flag.
Flagged(accts, flag) == [i \in DOMAIN accts |-> [accts[i] EXCEPT !.is_signer = flag]]

(* C13: Increment checks nothing but ownership: on a program-owned 8-byte  *)
(* region below the maximum it commits whether or not the target or any    *)
(* other account signs, and for every Increment the result and the store   *)
(* are those of the same call with all, or none, of the accounts signing.  *)
C13_IncrementIgnoresSigners ==
    /\ (IncrementOnOwned /\ Len(Before.data) = 8 /\ Before.data # MaxBytes
          /\ \A i \in DOMAIN last.call.accts : ~last.call.accts[i].is_signer)
          => Committed /\ After.data = SuccBytes(Before.data)
    /\ IsIncrement
          => \A flag \in BOOLEAN :
               LET other == process_instruction(ProgramId,
                                Flagged(last.call.accts, flag), Data, last.pre)
               IN  /\ other.result = last.call.result
                   /\ other.result = "Ok" => other.accounts = accounts

\* A committed Increment with two accounts supplied, neither signing.
C13_Witness ==
    /\ IncrementOnOwned /\ Committed
    /\ Len(last.call.accts) = 2
    /\ \A i \in DOMAIN last.call.accts : ~last.call.accts[i].is_signer
    /\ After.data = SuccBytes(Before.data)

(* C14: every create_account sub-call of Initialize names the second       *)
(* account as funder and the first as the new account, asks for 8 bytes    *)
(* owned by the executing program and pays the rent minimum of an 8-byte   *)
(* region; every account a committed Initialize produced has a region of   *)
(* exactly 8 bytes and is owned by the executing program.                  *)
C14_CreationRequest ==
    /\ \A i \in DOMAIN last.call.invoked :
          LET ix == last.call.invoked[i].ix
          IN  /\ IsInitialize
              /\ ix.from = last.call.accts[2].key
              /\ ix.to = last.call.accts[1].key
              /\ ix.space = 8
              /\ ix.owner = ProgramId
              /\ ix.lamports = minimum_balance(8)
    /\ (IsInitialize /\ Committed)
          => /\ Len(last.call.invoked) = 1
             /\ Len(After.data) = 8
             /\ After.owner = ProgramId
    /\ \A k \in AccountKeys :
          history[k].origin = "Initialize"
             => Len(accounts[k].data) = 8 /\ accounts[k].owner = ProgramId

C14_Witness ==
    /\ IsInitialize /\ Committed
    /\ last.call.accts[1].key = "c2"
    /\ last.call.accts[2].key = "payer"
    /\ Len(last.call.invoked) = 1
    /\ last.call.invoked[1].ix.to = "c2"
    /\ last.call.invoked[1].ix.from = "payer"
    /\ accounts["c2"].owner = ProgramId
    /\ Len(accounts["c2"].data) = 8

----------------------------------------------------------------------------
(* C15: the account state codec round-trips: writing the state read from   *)
(* an 8-byte region reproduces the region, and reading what was written    *)
(* for a count yields that count.                                          *)
C15_StateCodecRoundTrip ==
    /\ (codec.op = "read_write" /\ Len(codec.input) = 8)
          => codec.output = [ok |-> TRUE, val |-> codec.input]
    /\ codec.op = "write_read"
          => codec.output = [ok |-> TRUE, val |-> [count |-> codec.input]]

\* A region whose bytes differ end to end, read and written back.
C15_Witness ==
    /\ codec.op = "read_write"
    /\ codec.input = <<255, 1, 0, 0, 0, 0, 1, 0>>
    /\ codec.output.ok
    /\ codec.output.val = <<255, 1, 0, 0, 0, 0, 1, 0>>

----------------------------------------------------------------------------
\* A counter of this program as the store held it before the last call.
WasCounter(k) == last.pre[k].owner = ProgramId /\ Len(last.pre[k].data) = 8

(* C16: once an Initialize has created a counter, its stored count changes *)
(* only by committed Increments, each adding exactly 1: the count is the   *)
(* value it was created with plus the Increments committed on it, no call  *)
(* lowers it, and no later Initialize commits on it or rewrites it.        *)
C16_CountOnlyGrowsByOne ==
    /\ \A k \in AccountKeys :
          history[k].origin = "Initialize"
             => /\ accounts[k].owner = ProgramId
                /\ accounts[k].data = SuccTimes(history[k].base, history[k].incs)
    /\ \A k \in AccountKeys :
          (Called /\ WasCounter(k))
             => \/ accounts[k] = last.pre[k]
                \/ /\ IsIncrement /\ Committed /\ Target = k
                   /\ last.pre[k].data # MaxBytes
                   /\ accounts[k].data = SuccBytes(last.pre[k].data)
                   /\ accounts[k].owner = ProgramId
    /\ (IsInitialize /\ Committed) => ~WasCounter(Target) /\ Before = Fresh

\* A counter created with one value and incremented once survives a signed,
\* funded Initialize with another value.
C16_Witness ==
    /\ IsInitialize /\ Len(last.call.accts) = 3
    /\ last.call.accts[1].is_signer /\ last.call.accts[2].is_signer
    /\ history[Target].origin = "Initialize"
    /\ history[Target].incs = 1
    /\ SubSeq(Data, 2, 9) # history[Target].base
    /\ ~Committed
    /\ After.data = SuccBytes(history[Target].base)

(* C18: a call writes the byte region of the first supplied account only:  *)
(* the region and the owner of every other account, in the list or not,    *)
(* are after the call what they were before it.                            *)
C18_OnlyTargetWritten ==
    Called =>
      \A k \in AccountKeys :
         (~HasTarget \/ k # Target)
            => /\ accounts[k].data = last.pre[k].data
               /\ accounts[k].owner = last.pre[k].owner

\* An Increment committed on one counter while another counter, already
\* incremented, is second in the account list and keeps its count.
C18_Witness ==
    /\ IsIncrement /\ Committed
    /\ Len(last.call.accts) = 2
    /\ Target = "c1"
    /\ last.call.accts[2].key = "c2"
    /\ WasCounter("c2")
    /\ history["c2"].incs = 1
    /\ accounts["c2"].data = last.pre["c2"].data
    /\ After.data # Before.data

(* C19: the checks run in a fixed order and the first fault met is the one *)
(* reported: decode failure before MissingAccount, MissingAccount before   *)
(* NotOwner, NotOwner before Truncated, Truncated before Overflow.         *)
C19_FirstFaultReported ==
    /\ (Called /\ ~IsIncrement /\ ~IsInitialize)
          => last.call.result = DecodeError
    /\ ((IsIncrement \/ IsInitialize) /\ ~HasTarget)
          => last.call.result = MissingAccount
    /\ (IsIncrement /\ HasTarget /\ Before.owner # ProgramId)
          => last.call.result = NotOwner
    /\ (IncrementOnOwned /\ Len(Before.data) < 8)
          => last.call.result = Truncated
    /\ (IncrementOnOwned /\ Len(Before.data) = 8)
          => last.call.result = (IF Before.data = MaxBytes THEN Overflow ELSE "Ok")

\* An Increment on another program's region that is also too short to decode.
C19_Witness ==
    /\ IsIncrement /\ HasTarget
    /\ Before.owner = OtherProgramId
    /\ Len(Before.data) < 8
    /\ last.call.result = NotOwner

----------------------------------------------------------------------------
\* The clients whose Increment the host has committed.
Served == {c \in DOMAIN callers : callers[c].result = "Ok"}

\* The count the shared counter held before the first client's call.
Start == history["c1"].base

(* C17: with the calls on one counter run one at a time, no Increment is   *)
(* lost: after k committed Increments from count v the stored count is     *)
(* v + k, none of the k additions having passed the maximum, whatever the  *)
(* order of the callers; a caller is turned away only at the maximum.      *)
C17_NoLostUpdate ==
    callers # NoCallers =>
      LET k == Cardinality(Served)
      IN  /\ accounts["c1"].data = SuccTimes(Start, k)
          /\ \A j \in 0..(k - 1) : SuccTimes(Start, j) # MaxBytes
          /\ \A c \in Callers :
                callers[c].result \notin {"None", "Ok"}
                   => /\ callers[c].result = Overflow
                      /\ accounts["c1"].data = MaxBytes

\* Every client served, from 65534: the count carries into the third byte.
C17_Witness ==
    /\ callers # NoCallers
    /\ Served = Callers
    /\ Start = <<254, 255, 0, 0, 0, 0, 0, 0>>
    /\ accounts["c1"].data = SuccTimes(Start, MaxCallers)
    /\ accounts["c1"].data[3] = 1

====
